---- MODULE Spec2Model ----
(***************************************************************************)
(* A model of scope.hpp: the three exit policies, basic_scope_guard and    *)
(* unique_resource.  Two specifications share the module:                  *)
(*   GuardSpec  scope guards (make_scope_exit / _success / _fail)          *)
(*   Spec       unique_resource<R,D> instances                             *)
(* The unwinding probe (detail::uncaught_exception_count) is the variable  *)
(* uncaught_exception_count; the environment raises it when a failure      *)
(* starts to propagate and lowers it when a handler catches it.            *)
(***************************************************************************)
EXTENDS Integers, Sequences, FiniteSets, TLC

\* ------------------------------------------------------------------------
\* Bounds and program constants
\* ------------------------------------------------------------------------

\* the largest number of failures in flight at once
MaxProbe == 2

\* std::numeric_limits<int>::max(), the value on_fail_policy::release stores
IntMax == 2147483647

\* the two guard objects of a scenario (source and destination of a move)
GuardIds == {"g1", "g2"}

\* the three factories: make_scope_exit, make_scope_success, make_scope_fail
Kinds == {"exit", "success", "fail"}

\* the largest number of operations applied to unique_resource instances
MaxOps == 4

\* the two unique_resource objects of a scenario (source and destination)
Slots == {"a", "b"}

\* the sentinel the checked factory is given in unique_resource.test.cpp
invalid_value == -1

\* resource values (R is int-like: copyable, compared with ==): the
\* sentinel's value and a valid one
Resources == {invalid_value, 42}

\* deleter objects (D is a copyable function object): the caller builds each
\* unique_resource with a deleter object of its own
deleter_of == [a |-> "da", b |-> "db"]

Deleters == {deleter_of[s] : s \in Slots}

\* where a construction or an assignment step can fail (throw)
FailPoints == {"none", "resource", "deleter"}

\* what the stored action or the deleter does when it is invoked: it returns,
\* it re-enters the teardown (or reset()) of the object that invoked it, or
\* it throws
Acts == {"none", "reenter", "throw"}

VARIABLES
  uncaught_exception_count, \* what detail::uncaught_exception_count() returns
  guard,                    \* GuardIds -> the guard object (state, ExitPolicy base)
  called,                   \* GuardIds -> number of invocations of the stored action
  ginfo,                    \* GuardIds -> observations of the guard's history
  ur,                       \* Slots -> the unique_resource object
  hist,                     \* Slots -> the operations applied to the object, in order
  deleted,                  \* Slots -> the deleter invocations made by those operations
  identity,                 \* Slots -> the adoption the stored resource comes from
  terminated,               \* std::terminate() was called: the program is over
  memory,                   \* Addrs -> the value of the object at that address
  cell                      \* the unique_resource<R, D> whose storage is observed

gvars == <<guard, called, ginfo>>

uvars == <<ur, hist, deleted, identity>>

svars == <<memory, cell>>

\* ------------------------------------------------------------------------
\* detail::on_exit_policy, detail::on_fail_policy, detail::on_success_policy
\* ------------------------------------------------------------------------

on_exit_policy == [kind |-> "exit", m_should_execute |-> TRUE]

\* an on_fail_policy that takes 0 for its baseline instead of reading the probe
on_fail_policy_zero_baseline(count) == [kind |-> "fail", m_exception_count |-> 0]

on_fail_policy(count) == [kind |-> "fail", m_exception_count |-> count]

on_success_policy(count) == [kind |-> "success", m_exception_count |-> count]

\* ExitPolicy{} for the policy the factory selects; count is the probe's value
ExitPolicy(kind, count) ==
  CASE kind = "exit"    -> on_exit_policy
    [] kind = "fail"    -> on_fail_policy(count)
    [] kind = "success" -> on_success_policy(count)

\* release() that forgets to overwrite the baseline of on_fail_policy
release_keeps_fail_baseline(p) ==
  CASE p.kind = "exit"    -> [p EXCEPT !.m_should_execute = FALSE]
    [] p.kind = "fail"    -> p
    [] p.kind = "success" -> [p EXCEPT !.m_exception_count = -1]

\* release() that marks on_success_policy with 0 instead of -1
release_success_zero(p) ==
  CASE p.kind = "exit"    -> [p EXCEPT !.m_should_execute = FALSE]
    [] p.kind = "fail"    -> [p EXCEPT !.m_exception_count = IntMax]
    [] p.kind = "success" -> [p EXCEPT !.m_exception_count = 0]

release(p) ==
  CASE p.kind = "exit"    -> [p EXCEPT !.m_should_execute = FALSE]
    [] p.kind = "fail"    -> [p EXCEPT !.m_exception_count = IntMax]
    [] p.kind = "success" -> [p EXCEPT !.m_exception_count = -1]

\* on_fail_policy::should_execute written with <= instead of <
should_execute_fail_le(p, count) ==
  CASE p.kind = "exit"    -> p.m_should_execute
    [] p.kind = "fail"    -> p.m_exception_count <= count
    [] p.kind = "success" -> p.m_exception_count = count

\* on_success_policy::should_execute written with <= instead of ==
should_execute_success_le(p, count) ==
  CASE p.kind = "exit"    -> p.m_should_execute
    [] p.kind = "fail"    -> p.m_exception_count < count
    [] p.kind = "success" -> p.m_exception_count <= count

should_execute(p, count) ==
  CASE p.kind = "exit"    -> p.m_should_execute
    [] p.kind = "fail"    -> p.m_exception_count < count
    [] p.kind = "success" -> p.m_exception_count = count

\* ------------------------------------------------------------------------
\* detail::storage<T> and detail::storage<T&>: what a cell of
\* unique_resource<R, D> holds when R or D is a value type or a reference
\* ------------------------------------------------------------------------

\* the caller's two objects, and the two cells inside a unique_resource
Addrs == {"resource", "deleter", "m_resource", "m_deleter"}

\* the caller's objects as the tests set them up: a resource and a deleter
NoMemory ==
  [resource |-> 42, deleter |-> "da", m_resource |-> 0, m_deleter |-> "none"]

\* r, d: the values of the constructor's arguments when it ran; get,
\* get_deleter: the address and the value that the last call returned
NoCell ==
  [state |-> "none", R_ref |-> FALSE, D_ref |-> FALSE,
   m_resource |-> "none", m_deleter |-> "none",
   r |-> 0, d |-> "none", get |-> <<>>, get_deleter |-> <<>>]

\* storage<T>::storage(TT&& t, Guard&&): m_value(std::forward<TT>(t)) builds
\* the cell's own object, at the address own, from the value of t
storage_value(own, t, m) == [at |-> own, memory |-> [m EXCEPT ![own] = m[t]]]

\* a storage<T&> that keeps an object of its own, built from t
storage_ref_copies(own, t, m) == [at |-> own, memory |-> [m EXCEPT ![own] = m[t]]]

\* storage<T&>::storage(TT&& t, Guard&&): m_value(t) binds a
\* std::reference_wrapper<T> to the caller's object
storage_ref(own, t, m) == [at |-> t, memory |-> m]

\* storage<T>::cref() returns m_value, storage<T&>::cref() m_value.get():
\* the object the cell designates
cref(at) == at

\* unique_resource<R, D>{resource, deleter}: the resource cell is built, then
\* the deleter cell
storage_construct(R_ref, D_ref) ==
  LET c1 == IF R_ref THEN storage_ref("m_resource", "resource", memory)
                     ELSE storage_value("m_resource", "resource", memory)
      c2 == IF D_ref THEN storage_ref("m_deleter", "deleter", c1.memory)
                     ELSE storage_value("m_deleter", "deleter", c1.memory)
  IN  /\ cell.state = "none"
      /\ cell' = [NoCell EXCEPT !.state = "live",
                                !.R_ref = R_ref, !.D_ref = D_ref,
                                !.m_resource = c1.at, !.m_deleter = c2.at,
                                !.r = memory["resource"], !.d = memory["deleter"]]
      /\ memory' = c2.memory

\* the caller assigns to its own resource object
caller_sets_resource(v) ==
  /\ v # memory["resource"]
  /\ memory' = [memory EXCEPT !["resource"] = v]
  /\ UNCHANGED cell

\* the caller assigns to its own deleter object
caller_sets_deleter(d) ==
  /\ d # memory["deleter"]
  /\ memory' = [memory EXCEPT !["deleter"] = d]
  /\ UNCHANGED cell

\* unique_resource::get(): return m_resource.cref();
storage_get ==
  /\ cell.state = "live"
  /\ cell' = [cell EXCEPT !.get = <<cref(cell.m_resource), memory[cref(cell.m_resource)]>>]
  /\ UNCHANGED memory

\* unique_resource::get_deleter(): return m_deleter.cref();
storage_get_deleter ==
  /\ cell.state = "live"
  /\ cell' = [cell EXCEPT
                !.get_deleter = <<cref(cell.m_deleter), memory[cref(cell.m_deleter)]>>]
  /\ UNCHANGED memory

\* the object is released and its scope ends: its own cells are gone
storage_destroy ==
  /\ cell.state = "live"
  /\ cell' = NoCell
  /\ memory' = [memory EXCEPT !["m_resource"] = NoMemory["m_resource"],
                              !["m_deleter"] = NoMemory["m_deleter"]]

\* ------------------------------------------------------------------------
\* detail::basic_scope_guard<Fn, ExitPolicy>
\* ------------------------------------------------------------------------

NoPolicy == [kind |-> "none"]

NoGuard == [state |-> "none", policy |-> NoPolicy]

NoInfo ==
  [baseline |-> -1, released |-> FALSE, moved_to |-> FALSE, teardown |-> -1,
   from_released |-> FALSE, moved_at |-> -1,
   reentered |-> FALSE, armed_during |-> FALSE, threw |-> FALSE, escaped |-> FALSE]

\* make_scope_exit(fn), make_scope_success(fn), make_scope_fail(fn):
\* basic_scope_guard(ExitFunction&&) default-constructs the policy, which
\* reads the probe once.
make_scope_guard(g, kind) ==
  /\ ~terminated
  /\ guard[g].state = "none"
  /\ guard' = [guard EXCEPT ![g] =
                 [state |-> "live", policy |-> ExitPolicy(kind, uncaught_exception_count)]]
  /\ ginfo' = [ginfo EXCEPT ![g] = [NoInfo EXCEPT !.baseline = uncaught_exception_count]]
  /\ UNCHANGED <<called, uncaught_exception_count, terminated>>

\* scope_exit::release and friends: using ExitPolicy::release
guard_release(g) ==
  /\ ~terminated
  /\ guard[g].state = "live"
  /\ guard' = [guard EXCEPT ![g].policy = release(@)]
  /\ ginfo' = [ginfo EXCEPT ![g].released = TRUE]
  /\ UNCHANGED <<called, uncaught_exception_count, terminated>>

\* a move construction that copies the policy and leaves other as it was
guard_move_keeps_source(g, other) ==
  /\ ~terminated
  /\ g # other
  /\ guard[g].state = "none"
  /\ guard[other].state = "live"
  /\ guard' = [guard EXCEPT
                 ![g] = [state |-> "live", policy |-> guard[other].policy]]
  /\ ginfo' = [ginfo EXCEPT
                 ![g] = [ginfo[other] EXCEPT !.moved_to = TRUE,
                                             !.from_released = ginfo[other].released,
                                             !.moved_at = uncaught_exception_count]]
  /\ UNCHANGED <<called, uncaught_exception_count, terminated>>

\* a move construction that default-constructs the policy of the destination,
\* which reads the probe again
guard_move_rereads_probe(g, other) ==
  /\ ~terminated
  /\ g # other
  /\ guard[g].state = "none"
  /\ guard[other].state = "live"
  /\ guard' = [guard EXCEPT
                 ![g] = [state |-> "live",
                         policy |-> IF ginfo[other].released
                                      THEN guard[other].policy
                                      ELSE ExitPolicy(guard[other].policy.kind,
                                                      uncaught_exception_count)],
                 ![other].policy = release(@)]
  /\ ginfo' = [ginfo EXCEPT
                 ![g] = [ginfo[other] EXCEPT !.moved_to = TRUE,
                                             !.from_released = ginfo[other].released,
                                             !.moved_at = uncaught_exception_count],
                 ![other].released = TRUE]
  /\ UNCHANGED <<called, uncaught_exception_count, terminated>>

\* basic_scope_guard(basic_scope_guard&& other): the policy is copied from
\* other, the function cell is built from other's and then other is released
\* by storage(TT&&, Guard&&).
guard_move(g, other) ==
  /\ ~terminated
  /\ g # other
  /\ guard[g].state = "none"
  /\ guard[other].state = "live"
  /\ guard' = [guard EXCEPT
                 ![g] = [state |-> "live", policy |-> guard[other].policy],
                 ![other].policy = release(@)]
  /\ ginfo' = [ginfo EXCEPT
                 ![g] = [ginfo[other] EXCEPT !.moved_to = TRUE,
                                             !.from_released = ginfo[other].released,
                                             !.moved_at = uncaught_exception_count],
                 ![other].released = TRUE]
  /\ UNCHANGED <<called, uncaught_exception_count, terminated>>

\* a destructor declared noexcept whatever the action is
basic_scope_guard_dtor_always_noexcept(fn_noexcept) == TRUE

\* ~basic_scope_guard() noexcept(noexcept(std::declval<Fn&>()())): the
\* destructor is noexcept exactly when calling the action is
basic_scope_guard_dtor_noexcept(fn_noexcept) == fn_noexcept

\* ~basic_scope_guard(): if (should_execute()) m_function.ref()();
\* p is the policy, count the probe, act what the action does when it runs.
\* The policy is not touched before the call, so the action runs with the
\* policy as it was; an action that re-enters the teardown runs the same
\* test again.  calls: invocations of the action; during: should_execute()
\* as the running action sees it; thrown: the action threw.
basic_scope_guard_dtor(p, count, act) ==
  IF should_execute(p, count)
    THEN [calls |-> IF act = "reenter" /\ should_execute(p, count) THEN 2 ELSE 1,
          during |-> should_execute(p, count),
          thrown |-> act = "throw"]
    ELSE [calls |-> 0, during |-> FALSE, thrown |-> FALSE]

\* the scope of the guard ends.  An action that throws is not noexcept, and
\* its failure leaves the destructor unless the destructor is noexcept, in
\* which case std::terminate() is called.  unwinding: the destructor is run
\* by stack unwinding; a failure that leaves it then ends the program too.
guard_destroy(g, act, unwinding) ==
  LET d == basic_scope_guard_dtor(guard[g].policy, uncaught_exception_count, act)
      escapes == d.thrown /\ ~basic_scope_guard_dtor_noexcept(FALSE)
      stopped == d.thrown /\ (basic_scope_guard_dtor_noexcept(FALSE) \/ unwinding)
  IN  /\ ~terminated
      /\ guard[g].state = "live"
      /\ act # "none" => should_execute(guard[g].policy, uncaught_exception_count)
      /\ act = "throw" => uncaught_exception_count < MaxProbe
      /\ unwinding => act = "throw" /\ uncaught_exception_count > 0
      /\ called' = [called EXCEPT ![g] = @ + d.calls]
      /\ guard' = [guard EXCEPT ![g].state = "dead"]
      /\ ginfo' = [ginfo EXCEPT ![g].teardown = uncaught_exception_count,
                                ![g].reentered = (act = "reenter"),
                                ![g].armed_during = d.during,
                                ![g].threw = d.thrown,
                                ![g].escaped = escapes]
      /\ terminated' = stopped
      /\ uncaught_exception_count' =
           IF escapes THEN uncaught_exception_count + 1 ELSE uncaught_exception_count

\* ------------------------------------------------------------------------
\* unique_resource<R, D>
\* ------------------------------------------------------------------------

NoRes == 0

NoDel == "none"

NoInstance ==
  [state |-> "none", m_resource |-> NoRes, m_deleter |-> NoDel,
   m_execute_on_destruction |-> FALSE]

\* one invocation d(r) of a deleter
Call(d, r) == [del |-> d, res |-> r]

\* a storage constructor that releases its guard before m_value is built
storage_releases_early(built, g) == release(g)

\* detail::storage<T>::storage(TT&&, Guard&&) seen from its guard: the guard
\* is released once m_value is built, and left alone when building throws
storage(built, g) == IF built THEN release(g) ELSE g

\* ~basic_scope_guard() of a temporary guard whose action makes the call
scope_guard_dtor(g, count, call) ==
  IF should_execute(g, count) THEN <<call>> ELSE <<>>

\* a private constructor that treats the sentinel's value as empty whatever
\* execute_on_destruction says
unique_resource_sentinel_empty(r, d, execute_on_destruction, fail, count) ==
  LET g1 == storage(fail # "resource", ExitPolicy("exit", count))
      c1 == scope_guard_dtor(g1, IF fail = "resource" THEN count + 1 ELSE count,
                             Call(d, r))
      g2 == storage(fail # "deleter", ExitPolicy("exit", count))
      c2 == IF fail = "resource" THEN <<>>
            ELSE scope_guard_dtor(g2, IF fail = "deleter" THEN count + 1 ELSE count,
                                  Call(d, r))
  IN  [u |-> IF fail = "none"
               THEN [state |-> "live", m_resource |-> r, m_deleter |-> d,
                     m_execute_on_destruction |->
                       execute_on_destruction /\ r # invalid_value]
               ELSE [NoInstance EXCEPT !.state = "failed"],
       calls |-> c1 \o c2]

\* unique_resource(RR&& r, DD&& d, bool execute_on_destruction), the private
\* constructor.  fail names the cell whose construction throws; count is the
\* probe when the constructor is entered.  The result is the object (state
\* "failed" when the constructor threw) and the deleter calls it made.
unique_resource(r, d, execute_on_destruction, fail, count) ==
  LET g1 == storage(fail # "resource", ExitPolicy("exit", count))
      c1 == scope_guard_dtor(g1, IF fail = "resource" THEN count + 1 ELSE count,
                             Call(d, r))
      g2 == storage(fail # "deleter", ExitPolicy("exit", count))
      c2 == IF fail = "resource" THEN <<>>
            ELSE scope_guard_dtor(g2, IF fail = "deleter" THEN count + 1 ELSE count,
                                  Call(d, r))
  IN  [u |-> IF fail = "none"
               THEN [state |-> "live", m_resource |-> r, m_deleter |-> d,
                     m_execute_on_destruction |-> execute_on_destruction]
               ELSE [NoInstance EXCEPT !.state = "failed"],
       calls |-> c1 \o c2]

\* the comparison with the sentinel, inverted
checked_execute_on_destruction_inverted(resource, invalid) == resource = invalid

\* make_unique_resource_checked: execute_on_destruction = !(resource == invalid)
checked_execute_on_destruction(resource, invalid) == ~(resource = invalid)

\* a move constructor that leaves other's flag as it was
unique_resource_move_keeps_source(other, fail, read, count) ==
  LET g2 == storage(fail # "deleter", ExitPolicy("exit", count))
      fires == fail # "resource" /\ should_execute(g2, count) /\ other.m_execute_on_destruction
  IN  [u |-> IF fail = "none"
               THEN [state |-> "live", m_resource |-> other.m_resource,
                     m_deleter |-> other.m_deleter,
                     m_execute_on_destruction |-> other.m_execute_on_destruction]
               ELSE [NoInstance EXCEPT !.state = "failed"],
       other |-> IF fires
                   THEN [other EXCEPT !.m_execute_on_destruction = FALSE]
                   ELSE other,
       calls |-> IF fires THEN <<Call(read, other.m_resource)>> ELSE <<>>,
       points |-> <<[other |-> other.m_execute_on_destruction, this |-> FALSE],
                    [other |-> other.m_execute_on_destruction, this |-> FALSE],
                    [other |-> other.m_execute_on_destruction /\ ~fires,
                     this |-> fail = "none" /\ other.m_execute_on_destruction]>>]

\* unique_resource(unique_resource&& other).  The guard of the resource cell
\* has an empty action; the guard of the deleter cell, when that cell's move
\* throws and other is armed, calls this object's deleter cell (whose
\* construction did not complete: read is whatever that storage holds) on the
\* moved resource and releases other.  points: the two flags at the points
\* where code of R, D or the deleter runs or the constructor is left: while
\* the resource cell is built, while the deleter cell is built (or the guard
\* runs the deleter, before other.release()), and when the constructor
\* returns or throws.  The flag of the object under construction is written
\* last (line 996), after which other's is cleared (line 998), and an object
\* whose constructor throws never exists.
unique_resource_move(other, fail, read, count) ==
  LET g2 == storage(fail # "deleter", ExitPolicy("exit", count))
      fires == fail # "resource" /\ should_execute(g2, count) /\ other.m_execute_on_destruction
  IN  [u |-> IF fail = "none"
               THEN [state |-> "live", m_resource |-> other.m_resource,
                     m_deleter |-> other.m_deleter,
                     m_execute_on_destruction |-> other.m_execute_on_destruction]
               ELSE [NoInstance EXCEPT !.state = "failed"],
       other |-> IF fail = "none" \/ fires
                   THEN [other EXCEPT !.m_execute_on_destruction = FALSE]
                   ELSE other,
       calls |-> IF fires THEN <<Call(read, other.m_resource)>> ELSE <<>>,
       points |-> <<[other |-> other.m_execute_on_destruction, this |-> FALSE],
                    [other |-> other.m_execute_on_destruction, this |-> FALSE],
                    [other |-> other.m_execute_on_destruction /\ fail = "resource",
                     this |-> fail = "none" /\ other.m_execute_on_destruction]>>]

\* what an operation is when the code it instantiates is ill-formed: the
\* translation unit is rejected and there is no program to run
IllFormed == "ill-formed"

\* unique_resource::do_assign, all four overloads: each assigns from
\* other.resource and other.deleter, and unique_resource has no members of
\* these names (they are m_resource and m_deleter), so instantiating any of
\* them is an error
do_assign(u, other) == IllFormed

\* unique_resource::operator=(unique_resource&& other); same: &other == this.
\* The body is instantiated as a whole, the call of do_assign included, so
\* the operator is ill-formed for every operand, a self-assignment included;
\* were do_assign well-formed, a self-assignment would return at once and any
\* other would take the cells do_assign leaves and move the flag
unique_resource_assign(u, other, same) ==
  LET cells == do_assign(u, other)
  IN  IF cells = IllFormed
        THEN IllFormed
        ELSE IF same
          THEN [u |-> u, other |-> u, calls |-> <<>>]
          ELSE [u |-> [cells.u EXCEPT
                         !.m_execute_on_destruction = other.m_execute_on_destruction],
                other |-> [cells.other EXCEPT !.m_execute_on_destruction = FALSE],
                calls |-> cells.calls]

\* reset() that calls the deleter and forgets to clear the flag
reset_keeps_armed(u) ==
  IF u.m_execute_on_destruction
    THEN [u |-> u, calls |-> <<Call(u.m_deleter, u.m_resource)>>, during |-> u]
    ELSE [u |-> u, calls |-> <<>>, during |-> u]

\* reset() that clears the flag after the deleter has returned
reset_disarms_after(u) ==
  IF u.m_execute_on_destruction
    THEN [u |-> [u EXCEPT !.m_execute_on_destruction = FALSE],
          calls |-> <<Call(u.m_deleter, u.m_resource)>>,
          during |-> u]
    ELSE [u |-> u, calls |-> <<>>, during |-> u]

\* unique_resource::reset().  u: the object when reset() returns; calls: the
\* deleter calls made; during: the object as the running deleter finds it
\* (the flag is cleared on line 1037, the deleter called on line 1040)
reset(u) ==
  IF u.m_execute_on_destruction
    THEN [u |-> [u EXCEPT !.m_execute_on_destruction = FALSE],
          calls |-> <<Call(u.m_deleter, u.m_resource)>>,
          during |-> [u EXCEPT !.m_execute_on_destruction = FALSE]]
    ELSE [u |-> u, calls |-> <<>>, during |-> u]

\* reset() declared without noexcept
reset_noexcept_missing == FALSE

\* void reset() noexcept: a deleter that throws inside reset() ends the
\* program (~unique_resource, which calls reset(), is noexcept as well)
reset_noexcept == TRUE

\* reset(), or the destructor's reset(), with a deleter that does act while
\* it runs: a deleter that re-enters calls reset() on the object as it finds
\* it.  first is the result of reset() on the object.
with_deleter(first, act) ==
  [u |-> first.u,
   calls |-> first.calls \o
             (IF act = "reenter" /\ first.calls # <<>>
                THEN reset(first.during).calls ELSE <<>>)]

\* reset(r) that stores the new resource before it resets the old one
reset_new_sets_first(u, r, fail, count) ==
  LET g == ExitPolicy("fail", count)
      old == reset([u EXCEPT !.m_resource = r])
  IN  IF fail = "none"
        THEN [u |-> [old.u EXCEPT !.m_execute_on_destruction = TRUE],
              calls |-> old.calls \o scope_guard_dtor(g, count, Call(u.m_deleter, r))]
        ELSE [u |-> [u EXCEPT !.m_execute_on_destruction = FALSE],
              calls |-> scope_guard_dtor(g, count + 1, Call(u.m_deleter, r))]

\* reset(r) that arms the object again without storing r
reset_new_keeps_old_value(u, r, fail, count) ==
  LET g == ExitPolicy("fail", count)
      old == reset(u)
  IN  IF fail = "none"
        THEN [u |-> [old.u EXCEPT !.m_execute_on_destruction = TRUE],
              calls |-> old.calls \o scope_guard_dtor(g, count, Call(u.m_deleter, r))]
        ELSE [u |-> old.u,
              calls |-> old.calls \o scope_guard_dtor(g, count + 1, Call(u.m_deleter, r))]

\* reset(r) without the guard that deletes the new resource when storing it
\* fails
reset_new_no_fallback(u, r, fail, count) ==
  LET old == reset(u)
  IN  IF fail = "none"
        THEN [u |-> [old.u EXCEPT !.m_resource = r,
                                  !.m_execute_on_destruction = TRUE],
              calls |-> old.calls]
        ELSE [u |-> old.u, calls |-> old.calls]

\* reset(r) whose fallback guard compares the probe with 0 instead of with
\* the probe's value at the call
reset_new_zero_baseline(u, r, fail, count) ==
  LET g == ExitPolicy("fail", 0)
      old == reset(u)
  IN  IF fail = "none"
        THEN [u |-> [old.u EXCEPT !.m_resource = r,
                                  !.m_execute_on_destruction = TRUE],
              calls |-> old.calls \o scope_guard_dtor(g, count, Call(u.m_deleter, r))]
        ELSE [u |-> old.u,
              calls |-> old.calls \o scope_guard_dtor(g, count + 1, Call(u.m_deleter, r))]

\* reset(r) that stores r and leaves the flag as reset() left it
reset_new_leaves_disarmed(u, r, fail, count) ==
  LET g == ExitPolicy("fail", count)
      old == reset(u)
  IN  IF fail = "none"
        THEN [u |-> [old.u EXCEPT !.m_resource = r],
              calls |-> old.calls \o scope_guard_dtor(g, count, Call(u.m_deleter, r))]
        ELSE [u |-> old.u,
              calls |-> old.calls \o scope_guard_dtor(g, count + 1, Call(u.m_deleter, r))]

\* unique_resource::reset(RR&& r): a scope_fail guard is staged, reset() runs,
\* the resource cell is set (fail = "resource": the assignment throws) and the
\* object is armed again; the guard is torn down on the way out
reset_new(u, r, fail, count) ==
  LET g == ExitPolicy("fail", count)
      old == reset(u)
  IN  IF fail = "none"
        THEN [u |-> [old.u EXCEPT !.m_resource = r,
                                  !.m_execute_on_destruction = TRUE],
              calls |-> old.calls \o scope_guard_dtor(g, count, Call(u.m_deleter, r))]
        ELSE [u |-> old.u,
              calls |-> old.calls \o scope_guard_dtor(g, count + 1, Call(u.m_deleter, r))]

\* release() that leaves the flag set
unique_resource_release_noop(u) == u

\* release() that flips the flag instead of clearing it
unique_resource_release_toggles(u) ==
  [u EXCEPT !.m_execute_on_destruction = ~u.m_execute_on_destruction]

\* unique_resource::release()
unique_resource_release(u) == [u EXCEPT !.m_execute_on_destruction = FALSE]

\* get() that gives the resource away: the object is released
unique_resource_get_releases(u) ==
  [u |-> [u EXCEPT !.m_execute_on_destruction = FALSE],
   value |-> u.m_resource, calls |-> <<>>]

\* unique_resource::get() const noexcept: return m_resource.cref();
unique_resource_get(u) == [u |-> u, value |-> u.m_resource, calls |-> <<>>]

\* unique_resource::get_deleter() const noexcept: return m_deleter.cref();
unique_resource_get_deleter(u) == [u |-> u, value |-> u.m_deleter, calls |-> <<>>]

\* a destructor that forgets the resource
unique_resource_dtor_leaks(u) ==
  [u |-> [u EXCEPT !.state = "dead", !.m_execute_on_destruction = FALSE],
   calls |-> <<>>, during |-> u]

\* ~unique_resource(): reset(), after which the object is gone
unique_resource_dtor(u) ==
  LET r == reset(u)
  IN  [u |-> [r.u EXCEPT !.state = "dead"], calls |-> r.calls, during |-> r.during]

\* --- bookkeeping of the operations ------------------------------------

\* an entry of hist: the operation, its arguments (r, d, inv; for a move the
\* source's cells), the failure injected, this object's flag and resource
\* before the operation and, for a move, the source's flag before it and the
\* flags of both objects at the points of the move construction; id is the
\* adoption the resource the operation works on comes from
Entry(op, r, d, inv, fail, u, other_armed) ==
  [op |-> op, r |-> r, d |-> d, inv |-> inv, fail |-> fail,
   armed |-> u.m_execute_on_destruction, res |-> u.m_resource,
   other_armed |-> other_armed, points |-> <<>>, id |-> <<>>]

\* the calls of the k-th operation on an object, as entries of deleted; id is
\* the adoption that the resource stored when the operation starts comes from
Stamp(calls, k, id) ==
  [i \in 1..Len(calls) |->
     [at |-> k, del |-> calls[i].del, res |-> calls[i].res, id |-> id]]

\* the operations applied so far (a move counts once, at its destination)
Own(h) == SelectSeq(h, LAMBDA e : e.op # "moved_from")

OpCount ==
  IF terminated THEN MaxOps ELSE Len(Own(hist["a"])) + Len(Own(hist["b"]))

\* objects are named in the order of their construction
Fresh(s) ==
  /\ ur[s].state = "none"
  /\ s = "b" => ur["a"].state # "none"

CanFail(fail) == fail # "none" => uncaught_exception_count < MaxProbe

\* a throwing operation leaves its failure in flight
Propagate(fail) ==
  /\ uncaught_exception_count' =
       IF fail = "none" THEN uncaught_exception_count ELSE uncaught_exception_count + 1
  /\ UNCHANGED terminated

\* a deleter that throws inside reset(): std::terminate() when reset() is
\* noexcept, a failure in flight otherwise
DeleterThrows(act) ==
  /\ terminated' = (act = "throw" /\ reset_noexcept)
  /\ uncaught_exception_count' =
       IF act = "throw" /\ ~reset_noexcept
         THEN uncaught_exception_count + 1 ELSE uncaught_exception_count

\* the operations that adopt a resource handed in by the caller
Adopts(entry) ==
  entry.op \in {"ctor", "checked", "reset_new"} /\ entry.fail = "none"

\* the step of an operation on object s alone; an adoption is identified by
\* the object and the position of the adopting operation in its history
Apply(s, entry, result) ==
  /\ ur' = [ur EXCEPT ![s] = result.u]
  /\ hist' = [hist EXCEPT ![s] = Append(@, [entry EXCEPT !.id = identity[s]])]
  /\ deleted' = [deleted EXCEPT
                   ![s] = @ \o Stamp(result.calls, Len(hist[s]) + 1, identity[s])]
  /\ identity' = [identity EXCEPT ![s] =
                     IF Adopts(entry) THEN <<s, Len(hist[s]) + 1>> ELSE @]

\* the step of an operation on object s that takes from object o
ApplyFrom(s, o, entry, taken, result) ==
  /\ ur' = [ur EXCEPT ![s] = result.u, ![o] = result.other]
  /\ hist' = [hist EXCEPT
                ![s] = Append(@, [entry EXCEPT !.id = identity[o]]),
                ![o] = Append(@, [Entry(taken, NoRes, NoDel, NoRes, entry.fail, ur[o], FALSE)
                                    EXCEPT !.id = identity[o]])]
  /\ deleted' = [deleted EXCEPT
                   ![s] = @ \o Stamp(result.calls, Len(hist[s]) + 1, identity[o])]
  /\ identity' = [identity EXCEPT ![s] = IF entry.fail = "none" THEN identity[o] ELSE @]

\* --- the operations ----------------------------------------------------

\* unique_resource(RR&& r, DD&& d): delegates with execute_on_destruction = true
unique_resource_ctor(s, r, d, fail) ==
  /\ Fresh(s)
  /\ OpCount < MaxOps
  /\ CanFail(fail)
  /\ Apply(s, Entry("ctor", r, d, NoRes, fail, ur[s], FALSE),
           unique_resource(r, d, TRUE, fail, uncaught_exception_count))
  /\ Propagate(fail)

\* make_unique_resource(resource, d): result_type{resource, d}
make_unique_resource(s, r, d, fail) ==
  unique_resource_ctor(s, r, d, fail)

\* make_unique_resource_checked(resource, invalid, d)
make_unique_resource_checked(s, r, invalid, d, fail) ==
  /\ Fresh(s)
  /\ OpCount < MaxOps
  /\ CanFail(fail)
  /\ Apply(s, Entry("checked", r, d, invalid, fail, ur[s], FALSE),
           unique_resource(r, d, checked_execute_on_destruction(r, invalid), fail,
                           uncaught_exception_count))
  /\ Propagate(fail)

\* unique_resource b{std::move(a)}
move_construct(s, o, fail, read) ==
  /\ s # o
  /\ Fresh(s)
  /\ ur[o].state = "live"
  /\ OpCount < MaxOps
  /\ CanFail(fail)
  /\ ApplyFrom(s, o,
               [Entry("move", ur[o].m_resource, ur[o].m_deleter, NoRes, fail, ur[s],
                      ur[o].m_execute_on_destruction)
                  EXCEPT !.points =
                    unique_resource_move(ur[o], fail, read,
                                         uncaught_exception_count).points],
               "moved_from",
               unique_resource_move(ur[o], fail, read, uncaught_exception_count))
  /\ Propagate(fail)

\* u.reset(), with what the deleter does if it is invoked
do_reset(s, act) ==
  /\ ur[s].state = "live"
  /\ OpCount < MaxOps
  /\ act # "none" => ur[s].m_execute_on_destruction
  /\ Apply(s, Entry("reset", NoRes, NoDel, NoRes, act, ur[s], FALSE),
           with_deleter(reset(ur[s]), act))
  /\ DeleterThrows(act)

\* u.reset(r)
do_reset_new(s, r, fail) ==
  /\ ur[s].state = "live"
  /\ OpCount < MaxOps
  /\ fail \in {"none", "resource"}
  /\ CanFail(fail)
  /\ Apply(s, Entry("reset_new", r, NoDel, NoRes, fail, ur[s], FALSE),
           reset_new(ur[s], r, fail, uncaught_exception_count))
  /\ Propagate(fail)

\* u.get(); the entry records the value returned
do_get(s) ==
  /\ ur[s].state = "live"
  /\ OpCount < MaxOps
  /\ Apply(s, Entry("get", unique_resource_get(ur[s]).value, NoDel, NoRes, "none",
                    ur[s], FALSE),
           unique_resource_get(ur[s]))
  /\ UNCHANGED <<uncaught_exception_count, terminated>>

\* u.get_deleter(); the entry records the deleter returned
do_get_deleter(s) ==
  /\ ur[s].state = "live"
  /\ OpCount < MaxOps
  /\ Apply(s, Entry("get_deleter", NoRes, unique_resource_get_deleter(ur[s]).value,
                    NoRes, "none", ur[s], FALSE),
           unique_resource_get_deleter(ur[s]))
  /\ UNCHANGED <<uncaught_exception_count, terminated>>

\* u.release()
do_release(s) ==
  /\ ur[s].state = "live"
  /\ OpCount < MaxOps
  /\ Apply(s, Entry("release", NoRes, NoDel, NoRes, "none", ur[s], FALSE),
           [u |-> unique_resource_release(ur[s]), calls |-> <<>>])
  /\ UNCHANGED <<uncaught_exception_count, terminated>>

\* the scope of u ends, with what the deleter does if it is invoked
destroy(s, act) ==
  /\ ur[s].state = "live"
  /\ OpCount < MaxOps
  /\ act # "none" => ur[s].m_execute_on_destruction
  /\ Apply(s, Entry("dtor", NoRes, NoDel, NoRes, act, ur[s], FALSE),
           with_deleter(unique_resource_dtor(ur[s]), act))
  /\ DeleterThrows(act)


\* ------------------------------------------------------------------------
\* The environment: a failure starts to propagate, a handler catches one
\* ------------------------------------------------------------------------

Throw ==
  /\ ~terminated
  /\ uncaught_exception_count < MaxProbe
  /\ uncaught_exception_count' = uncaught_exception_count + 1

Catch ==
  /\ ~terminated
  /\ uncaught_exception_count > 0
  /\ uncaught_exception_count' = uncaught_exception_count - 1

GuardInit ==
  /\ uncaught_exception_count = 0
  /\ guard = [g \in GuardIds |-> NoGuard]
  /\ called = [g \in GuardIds |-> 0]
  /\ ginfo = [g \in GuardIds |-> NoInfo]
  /\ ur = [s \in Slots |-> NoInstance]
  /\ hist = [s \in Slots |-> <<>>]
  /\ deleted = [s \in Slots |-> <<>>]
  /\ identity = [s \in Slots |-> <<>>]
  /\ terminated = FALSE
  /\ memory = NoMemory
  /\ cell = NoCell

GuardNext ==
  \/ \E g \in GuardIds, kind \in Kinds : make_scope_guard(g, kind) /\ UNCHANGED <<uvars, svars>>
  \/ \E g \in GuardIds : guard_release(g) /\ UNCHANGED <<uvars, svars>>
  \/ \E g \in GuardIds, other \in GuardIds : guard_move(g, other) /\ UNCHANGED <<uvars, svars>>
  \/ \E g \in GuardIds, act \in Acts, unwinding \in BOOLEAN :
       guard_destroy(g, act, unwinding) /\ UNCHANGED <<uvars, svars>>
  \/ Throw /\ UNCHANGED <<gvars, uvars, svars, terminated>>
  \/ Catch /\ UNCHANGED <<gvars, uvars, svars, terminated>>

allvars ==
  <<uncaught_exception_count, guard, called, ginfo, ur, hist, deleted, identity,
    terminated, memory, cell>>

GuardSpec == GuardInit /\ [][GuardNext]_allvars

StorageNext ==
  \/ \E R_ref \in BOOLEAN, D_ref \in BOOLEAN :
       storage_construct(R_ref, D_ref)
         /\ UNCHANGED <<uncaught_exception_count, gvars, uvars, terminated>>
  \/ \E v \in Resources :
       caller_sets_resource(v)
         /\ UNCHANGED <<uncaught_exception_count, gvars, uvars, terminated>>
  \/ \E d \in Deleters :
       caller_sets_deleter(d)
         /\ UNCHANGED <<uncaught_exception_count, gvars, uvars, terminated>>
  \/ storage_get /\ UNCHANGED <<uncaught_exception_count, gvars, uvars, terminated>>
  \/ storage_get_deleter
       /\ UNCHANGED <<uncaught_exception_count, gvars, uvars, terminated>>
  \/ storage_destroy /\ UNCHANGED <<uncaught_exception_count, gvars, uvars, terminated>>

StorageSpec == GuardInit /\ [][StorageNext]_allvars

Init == GuardInit

Next ==
  \/ \E s \in Slots, r \in Resources, fail \in FailPoints :
       unique_resource_ctor(s, r, deleter_of[s], fail) /\ UNCHANGED <<gvars, svars>>
  \/ \E s \in Slots, r \in Resources, fail \in FailPoints :
       make_unique_resource(s, r, deleter_of[s], fail) /\ UNCHANGED <<gvars, svars>>
  \/ \E s \in Slots, r \in Resources, fail \in FailPoints :
       make_unique_resource_checked(s, r, invalid_value, deleter_of[s], fail)
         /\ UNCHANGED <<gvars, svars>>
  \/ \E s \in Slots, o \in Slots, fail \in FailPoints, read \in Deleters \cup {NoDel} :
       move_construct(s, o, fail, read) /\ UNCHANGED <<gvars, svars>>
  \/ \E s \in Slots, act \in Acts : do_reset(s, act) /\ UNCHANGED <<gvars, svars>>
  \/ \E s \in Slots, r \in Resources, fail \in FailPoints :
       do_reset_new(s, r, fail) /\ UNCHANGED <<gvars, svars>>
  \/ \E s \in Slots : do_release(s) /\ UNCHANGED <<gvars, svars>>
  \/ \E s \in Slots, act \in Acts : destroy(s, act) /\ UNCHANGED <<gvars, svars>>
  \/ Throw /\ UNCHANGED <<gvars, uvars, svars, terminated>>
  \/ Catch /\ UNCHANGED <<gvars, uvars, svars, terminated>>

Spec == Init /\ [][Next]_allvars

\* the operations of Spec together with the observers get() and get_deleter()
ObserveNext ==
  \/ Next
  \/ \E s \in Slots : do_get(s) /\ UNCHANGED <<gvars, svars>>
  \/ \E s \in Slots : do_get_deleter(s) /\ UNCHANGED <<gvars, svars>>

ObserveSpec == Init /\ [][ObserveNext]_allvars

\* the guard variable that holds the fallback guard of reset(r) on an object
fallback_guard == [a |-> "g1", b |-> "g2"]

\* auto guard = make_scope_fail(...) in reset(RR&&): the guard is built when
\* the call starts, reading the probe, and torn down when the call returns
\* or unwinds; called counts the invocations of its action by this call
reset_new_guard(s, r, fail) ==
  LET count == uncaught_exception_count
      g == fallback_guard[s]
      result == reset_new(ur[s], r, fail, count)
  IN  /\ guard' = [guard EXCEPT
                     ![g] = [state |-> "dead", policy |-> ExitPolicy("fail", count)]]
      /\ ginfo' = [ginfo EXCEPT
                     ![g] = [NoInfo EXCEPT
                               !.baseline = count,
                               !.teardown = IF fail = "none" THEN count ELSE count + 1]]
      /\ called' = [called EXCEPT
                      ![g] = Len(result.calls) - Len(reset(ur[s]).calls)]

\* construction, reset(r), reset(), release() and the end of scope, with the
\* fallback guard of the latest reset(r) on each object kept as a guard
ResetNext ==
  \/ \E s \in Slots, r \in Resources, fail \in FailPoints :
       unique_resource_ctor(s, r, deleter_of[s], fail) /\ UNCHANGED <<gvars, svars>>
  \/ \E s \in Slots, act \in Acts : do_reset(s, act) /\ UNCHANGED <<gvars, svars>>
  \/ \E s \in Slots, r \in Resources, fail \in FailPoints :
       do_reset_new(s, r, fail) /\ reset_new_guard(s, r, fail) /\ UNCHANGED svars
  \/ \E s \in Slots : do_release(s) /\ UNCHANGED <<gvars, svars>>
  \/ \E s \in Slots, act \in Acts : destroy(s, act) /\ UNCHANGED <<gvars, svars>>
  \/ Throw /\ UNCHANGED <<gvars, uvars, svars, terminated>>
  \/ Catch /\ UNCHANGED <<gvars, uvars, svars, terminated>>

ResetSpec == Init /\ [][ResetNext]_allvars

\* ------------------------------------------------------------------------
\* Scope guard properties
\* ------------------------------------------------------------------------

\* a guard that a factory built (not the destination of a move), torn down
\* once, by the end of its scope
TornDownMade(g) ==
  /\ guard[g].state = "dead"
  /\ ~ginfo[g].moved_to
  /\ ~ginfo[g].reentered

\* C1: a guard built by make_scope_exit, make_scope_success or
\* make_scope_fail that was never released and is torn down with the probe
\* equal to its value at construction has invoked its action exactly once
\* if it is a scope_exit or scope_success, and never if it is a scope_fail.
C1_NormalEnd ==
  \A g \in GuardIds :
    (TornDownMade(g) /\ ~ginfo[g].released
       /\ ginfo[g].teardown = ginfo[g].baseline)
    => called[g] = (IF guard[g].policy.kind \in {"exit", "success"} THEN 1 ELSE 0)

C1_Witness ==
  /\ TornDownMade("g1") /\ ~ginfo["g1"].released
  /\ ginfo["g1"].teardown = ginfo["g1"].baseline
  /\ guard["g1"].policy.kind = "fail" /\ called["g1"] = 0
  /\ TornDownMade("g2") /\ ~ginfo["g2"].released
  /\ ginfo["g2"].teardown = ginfo["g2"].baseline
  /\ guard["g2"].policy.kind = "success" /\ called["g2"] = 1

\* C2: a guard that was never released and is torn down while a failure
\* that started after its construction is unwinding (probe at teardown
\* greater than at construction) has invoked its action exactly once if it
\* is a scope_exit or scope_fail, and never if it is a scope_success.
C2_FailureEnd ==
  \A g \in GuardIds :
    (TornDownMade(g) /\ ~ginfo[g].released
       /\ ginfo[g].teardown > ginfo[g].baseline)
    => called[g] = (IF guard[g].policy.kind \in {"exit", "fail"} THEN 1 ELSE 0)

C2_Witness ==
  /\ TornDownMade("g1") /\ ~ginfo["g1"].released
  /\ ginfo["g1"].teardown > ginfo["g1"].baseline
  /\ guard["g1"].policy.kind = "fail" /\ called["g1"] = 1
  /\ TornDownMade("g2") /\ ~ginfo["g2"].released
  /\ ginfo["g2"].teardown > ginfo["g2"].baseline
  /\ guard["g2"].policy.kind = "success" /\ called["g2"] = 0

\* C3: a guard on which release() was called before its teardown never
\* invokes its action, whatever its kind and whatever the probe reads at
\* teardown (normal end, or a failure that started after the release).
C3_Released ==
  \A g \in GuardIds :
    (guard[g].state = "dead" /\ ginfo[g].released) => called[g] = 0

C3_Witness ==
  /\ TornDownMade("g1") /\ ginfo["g1"].released
  /\ guard["g1"].policy.kind = "fail"
  /\ ginfo["g1"].teardown > ginfo["g1"].baseline
  /\ called["g1"] = 0
  /\ TornDownMade("g2") /\ ginfo["g2"].released
  /\ guard["g2"].policy.kind = "success"
  /\ ginfo["g2"].teardown = ginfo["g2"].baseline
  /\ called["g2"] = 0

\* ------------------------------------------------------------------------
\* unique_resource properties
\* ------------------------------------------------------------------------

\* the other object of the scenario
Other(s) == CHOOSE t \in Slots : t # s

\* the resource values the deleter was invoked with, in order
Values(calls) == [i \in 1..Len(calls) |-> calls[i].res]

\* the resource values passed by the calls of the k-th operation on s
At(s, k) == Values(SelectSeq(deleted[s], LAMBDA c : c.at = k))

\* the k-th operation on s exists, is op and did not fail
Did(s, k, op) ==
  /\ k \in 1..Len(hist[s])
  /\ hist[s][k].op = op
  /\ hist[s][k].fail = "none"

\* the deleter calls an operation that starts with the flag armed and the
\* resource res makes when it deletes the stored resource
Deletes(armed, res) == IF armed THEN <<res>> ELSE <<>>

\* C4: an object built by unique_resource(r, d) (or make_unique_resource) is
\* armed for every value of r, the sentinel's included; building it invokes
\* no deleter, and if its scope then ends with nothing in between, the
\* deleter has been invoked exactly once, with r.
C4_ConstructThenEnd ==
  \A s \in Slots :
    Did(s, 1, "ctor") =>
      /\ At(s, 1) = <<>>
      /\ Len(hist[s]) = 1 =>
           /\ ur[s].state = "live"
           /\ ur[s].m_execute_on_destruction
           /\ ur[s].m_resource = hist[s][1].r
      /\ Did(s, 2, "dtor") => Values(deleted[s]) = <<hist[s][1].r>>

C4_Witness ==
  /\ Did("a", 1, "ctor") /\ hist["a"][1].r = invalid_value
  /\ Did("a", 2, "dtor")
  /\ Values(deleted["a"]) = <<invalid_value>>
  /\ Did("b", 1, "ctor") /\ hist["b"][1].r = 42
  /\ Did("b", 2, "dtor")
  /\ Values(deleted["b"]) = <<42>>

\* C5: release() invokes no deleter, and neither does the end of the
\* object's scope when it follows the release(); after construct, release(),
\* scope end the deleter was never invoked.
C5_ReleaseThenEnd ==
  \A s \in Slots : \A k \in 1..Len(hist[s]) :
    Did(s, k, "release") =>
      /\ At(s, k) = <<>>
      /\ Did(s, k + 1, "dtor") => At(s, k + 1) = <<>>
      /\ (k = 2 /\ Did(s, 1, "ctor") /\ Did(s, 3, "dtor")) => deleted[s] = <<>>

C5_Witness ==
  /\ Did("a", 1, "ctor")
  /\ Did("a", 2, "release") /\ hist["a"][2].armed
  /\ Did("a", 3, "dtor")
  /\ deleted["a"] = <<>>

\* C6: reset(r2) on an armed object holding r invokes the deleter exactly
\* once, with r, during the call, stores r2 and arms the object; a scope end
\* that follows invokes the deleter exactly once, with r2; after construct,
\* reset(r2), scope end there are two invocations, on r and then on r2.
C6_ResetNewThenEnd ==
  \A s \in Slots : \A k \in 1..Len(hist[s]) :
    (Did(s, k, "reset_new") /\ hist[s][k].armed) =>
      /\ At(s, k) = <<hist[s][k].res>>
      /\ k = Len(hist[s]) =>
           /\ ur[s].m_resource = hist[s][k].r
           /\ ur[s].m_execute_on_destruction
      /\ Did(s, k + 1, "dtor") => At(s, k + 1) = <<hist[s][k].r>>
      /\ (k = 2 /\ Did(s, 1, "ctor") /\ Did(s, 3, "dtor")) =>
           Values(deleted[s]) = <<hist[s][1].r, hist[s][2].r>>

C6_Witness ==
  /\ Did("a", 1, "ctor") /\ hist["a"][1].r = 42
  /\ Did("a", 2, "reset_new") /\ hist["a"][2].r = invalid_value
  /\ Did("a", 3, "dtor")
  /\ Values(deleted["a"]) = <<42, invalid_value>>
  /\ deleted["a"][1].at = 2 /\ deleted["a"][2].at = 3

\* C7: make_unique_resource_checked(resource, invalid, d) returns an object
\* that is armed iff resource # invalid; if its scope then ends, the deleter
\* was invoked never when resource = invalid, and exactly once, with
\* resource, otherwise.
C7_Checked ==
  \A s \in Slots :
    Did(s, 1, "checked") =>
      /\ Len(hist[s]) = 1 =>
           (ur[s].m_execute_on_destruction <=> hist[s][1].r # hist[s][1].inv)
      /\ Did(s, 2, "dtor") =>
           Values(deleted[s]) =
             (IF hist[s][1].r = hist[s][1].inv THEN <<>> ELSE <<hist[s][1].r>>)

C7_Witness ==
  /\ Did("a", 1, "checked") /\ hist["a"][1].r = hist["a"][1].inv
  /\ Did("a", 2, "dtor") /\ deleted["a"] = <<>>
  /\ Did("b", 1, "checked") /\ hist["b"][1].r # hist["b"][1].inv
  /\ Did("b", 2, "dtor") /\ Values(deleted["b"]) = <<hist["b"][1].r>>

\* the position in the history of s of the move out of s
MovedFromAt(s) ==
  CHOOSE k \in 1..Len(hist[s]) : hist[s][k].op = "moved_from"

\* C8: move-constructing b from a gives b the flag a had and leaves a
\* disarmed; the end of a's scope right after the move invokes nothing, and
\* the end of b's scope right after the move invokes the deleter exactly once
\* (with the moved resource) if a was armed and never if it was not.
C8_MoveConstruct ==
  \A s \in Slots :
    Did(s, 1, "move") =>
      LET o == Other(s)
          k == MovedFromAt(o)
      IN  /\ At(s, 1) = <<>>
          /\ (Len(hist[s]) = 1 /\ Len(hist[o]) = k) =>
               /\ ur[s].m_execute_on_destruction = hist[s][1].other_armed
               /\ ~ur[o].m_execute_on_destruction
          /\ Did(o, k + 1, "dtor") => At(o, k + 1) = <<>>
          /\ Did(s, 2, "dtor") =>
               Values(deleted[s]) = Deletes(hist[s][1].other_armed, hist[s][1].r)

C8_Witness ==
  /\ Did("a", 1, "ctor")
  /\ Len(hist["a"]) = 3
  /\ hist["a"][2].op = "moved_from" /\ hist["a"][2].armed
  /\ Did("a", 3, "dtor")
  /\ Did("b", 1, "move") /\ hist["b"][1].other_armed
  /\ Did("b", 2, "dtor")
  /\ Values(deleted["a"]) = <<>>
  /\ Values(deleted["b"]) = <<hist["a"][1].r>>

\* C9: the end of an object's scope acts as reset() does: either invokes the
\* deleter exactly once, with the stored resource, if the object is armed,
\* and never otherwise, and leaves the object disarmed; so the end of scope
\* that follows a reset() invokes nothing, and construct, reset(), scope end
\* invokes the deleter exactly once in all.
C9_DestructionIsReset ==
  \A s \in Slots : \A k \in 1..Len(hist[s]) :
    /\ (Did(s, k, "reset") \/ Did(s, k, "dtor")) =>
         /\ At(s, k) = Deletes(hist[s][k].armed, hist[s][k].res)
         /\ k = Len(hist[s]) => ~ur[s].m_execute_on_destruction
    /\ (Did(s, k, "reset") /\ Did(s, k + 1, "dtor")) => At(s, k + 1) = <<>>
    /\ (k = 2 /\ Did(s, 1, "ctor") /\ Did(s, 2, "reset") /\ Did(s, 3, "dtor")) =>
         Values(deleted[s]) = <<hist[s][1].r>>

C9_Witness ==
  /\ Did("a", 1, "ctor")
  /\ Did("a", 2, "reset") /\ hist["a"][2].armed
  /\ Did("a", 3, "dtor")
  /\ Values(deleted["a"]) = <<hist["a"][1].r>>
  /\ deleted["a"][1].at = 2

\* s has just taken from the other object by the operation op
JustTook(s, op) ==
  /\ Did(s, Len(hist[s]), op)
  /\ Len(hist[Other(s)]) > 0
  /\ hist[Other(s)][Len(hist[Other(s)])].op = "moved_from"

\* C10: no two live objects are armed for a resource of the same adoption,
\* in any state that construct, move-construct, reset(), reset(new),
\* release() and end of scope reach (a program that move-assigns is
\* ill-formed, so no state is reached by a move assignment); and right after
\* a move construction the destination's flag is the flag the source had,
\* and the source's flag is clear.
C10_OneOwner ==
  /\ \A s \in Slots : \A t \in Slots \ {s} :
       (/\ ur[s].state = "live" /\ ur[s].m_execute_on_destruction
        /\ ur[t].state = "live" /\ ur[t].m_execute_on_destruction)
       => identity[s] # identity[t]
  /\ \A s \in Slots :
       JustTook(s, "move") =>
         /\ ur[s].m_execute_on_destruction = hist[s][Len(hist[s])].other_armed
         /\ ~ur[Other(s)].m_execute_on_destruction

\* b move-constructed from the armed a: b is armed for a's adoption, a is not
C10_Witness ==
  /\ JustTook("b", "move")
  /\ hist["b"][Len(hist["b"])].other_armed
  /\ ur["b"].m_execute_on_destruction
  /\ ~ur["a"].m_execute_on_destruction
  /\ ur["a"].state = "live"
  /\ identity["b"] = <<"a", 1>>

\* two distinct live objects: the operands of this = std::move(other)
Operands(s, o) == s # o /\ ur[s].state = "live" /\ ur[o].state = "live"

\* C11 (as the specification states it): a move assignment into an armed
\* object that is not the source invokes the deleter exactly once, with the
\* resource the object held before the assignment, as part of the assignment.
C11_AssignDeletesOld ==
  \A s \in Slots, o \in Slots :
    (Operands(s, o) /\ ur[s].m_execute_on_destruction) =>
      LET a == unique_resource_assign(ur[s], ur[o], FALSE)
      IN  /\ a # IllFormed
          /\ Values(a.calls) = <<ur[s].m_resource>>

\* C12 (as the specification states it): right after a move assignment from
\* a distinct object, exactly one of the two objects is armed and the source
\* is disarmed, whatever the two flags were before.
C12_ExactlyOneArmed ==
  \A s \in Slots, o \in Slots :
    Operands(s, o) =>
      LET a == unique_resource_assign(ur[s], ur[o], FALSE)
      IN  /\ a # IllFormed
          /\ ~a.other.m_execute_on_destruction
          /\ a.u.m_execute_on_destruction

\* ------------------------------------------------------------------------
\* scope guard properties: moves, re-entrancy and failing actions
\* ------------------------------------------------------------------------

\* the other guard of the scenario: the source of a guard built by a move
OtherGuard(g) == CHOOSE o \in GuardIds : o # g

\* no probe value makes the policy fire
Disarmed(p) == \A count \in 0..MaxProbe : ~should_execute(p, count)

\* C13: after a guard is move-constructed from another, the moved-from guard
\* is disarmed and its teardown invokes nothing; a source that was released
\* before the move gives a released destination, whose teardown invokes
\* nothing; and over the teardowns of both guards (each torn down once) the
\* action is invoked at most once.
C13_GuardMove ==
  \A g \in GuardIds :
    (guard[g].state # "none" /\ ginfo[g].moved_to) =>
      LET o == OtherGuard(g)
      IN  /\ guard[o].state = "live" => Disarmed(guard[o].policy)
          /\ called[o] = 0
          /\ ginfo[g].from_released =>
                /\ guard[g].state = "live" => Disarmed(guard[g].policy)
                /\ called[g] = 0
          /\ ~ginfo[g].reentered => called[g] + called[o] <= 1

\* a fail guard moved and both guards torn down while a failure is in
\* flight: the action ran once, for the destination
C13_Witness ==
  /\ guard["g1"].state = "dead" /\ guard["g2"].state = "dead"
  /\ ginfo["g2"].moved_to /\ ~ginfo["g2"].from_released
  /\ ~ginfo["g2"].reentered
  /\ guard["g2"].policy.kind = "fail"
  /\ ginfo["g1"].teardown > ginfo["g2"].baseline
  /\ ginfo["g2"].teardown > ginfo["g2"].baseline
  /\ called["g1"] = 0 /\ called["g2"] = 1

\* C15 (as the specification states it): when the teardown of a guard invokes
\* the action, the policy is already disarmed while the action runs
\* (should_execute() is false), so that a teardown re-entered from inside the
\* action does not invoke the action a second time.
C15_DisarmedDuringAction ==
  \A g \in GuardIds :
    (guard[g].state = "dead" /\ called[g] >= 1) =>
      /\ ~ginfo[g].armed_during
      /\ called[g] = 1

\* C19: an action that fails when the teardown invokes it has its failure
\* leave the teardown (it is not swallowed and does not end the program
\* inside the destructor), and the action has been invoked once, not twice.
C19_ActionFailure ==
  \A g \in GuardIds :
    (guard[g].state = "dead" /\ ginfo[g].threw) =>
      /\ ginfo[g].escaped
      /\ called[g] = 1

\* an exit guard whose action threw at a normal end of scope: the failure is
\* in flight afterwards and the program goes on
C19_Witness ==
  /\ guard["g1"].state = "dead" /\ ginfo["g1"].threw /\ ginfo["g1"].escaped
  /\ guard["g1"].policy.kind = "exit"
  /\ ginfo["g1"].teardown = 0
  /\ uncaught_exception_count = 1
  /\ ~terminated
  /\ called["g1"] = 1

\* ------------------------------------------------------------------------
\* unique_resource properties: re-entrancy and failures
\* ------------------------------------------------------------------------

\* the k-th operation on s is reset() or the end of its scope, on an armed
\* object whose deleter does act when it is invoked
Tears(s, k, act) ==
  /\ k \in 1..Len(hist[s])
  /\ hist[s][k].op \in {"reset", "dtor"}
  /\ hist[s][k].fail = act

\* C14: reset() on an armed object clears the flag before it invokes the
\* deleter: the running deleter finds the object disarmed, and when it
\* re-enters reset() (or the destruction, which is reset()) nothing is
\* invoked again: the deleter has been invoked exactly once, with the
\* resource the object held.
C14_ResetReentrant ==
  \A s \in Slots :
    /\ (ur[s].state = "live" /\ ur[s].m_execute_on_destruction) =>
         /\ ~reset(ur[s]).during.m_execute_on_destruction
         /\ reset(reset(ur[s]).during).calls = <<>>
    /\ \A k \in 1..Len(hist[s]) :
         Tears(s, k, "reenter") => At(s, k) = <<hist[s][k].res>>

C14_Witness ==
  /\ Len(hist["a"]) = 2
  /\ Did("a", 1, "ctor")
  /\ Tears("a", 2, "reenter") /\ hist["a"][2].op = "reset"
  /\ Values(deleted["a"]) = <<hist["a"][1].r>>
  /\ ur["a"].state = "live" /\ ~ur["a"].m_execute_on_destruction

\* C20 (as the specification states it): a deleter that fails while reset()
\* or the destruction invokes it has its failure reach the caller, propagated
\* unchanged, and the deleter is not invoked again.
C20_DeleterFailureSurfaces ==
  \A s \in Slots : \A k \in 1..Len(hist[s]) :
    Tears(s, k, "throw") =>
      /\ ~terminated
      /\ At(s, k) = <<hist[s][k].res>>

\* C20 (amended): a deleter that fails while reset() or the destruction
\* invokes it ends the program with std::terminate(), because reset() and
\* the destructor are noexcept: the failure does not reach the caller; the
\* deleter has been invoked once and is not invoked again.
C20_DeleterFailureTerminates ==
  \A s \in Slots : \A k \in 1..Len(hist[s]) :
    Tears(s, k, "throw") =>
      /\ terminated
      /\ k = Len(hist[s])
      /\ At(s, k) = <<hist[s][k].res>>
      /\ ~ur[s].m_execute_on_destruction

\* C16: a construction from (resource, deleter) that fails part way does not
\* leak the caller's resource: when building the resource cell throws the
\* deleter is invoked exactly once, with the caller's resource; when building
\* the deleter cell throws it is invoked exactly once, with the stored
\* resource (the same value); no object exists afterwards; and when both
\* cells are built the construction invokes no deleter.
C16_ConstructionNeverLeaks ==
  \A s \in Slots :
    (Len(hist[s]) >= 1 /\ hist[s][1].op \in {"ctor", "checked"}) =>
      LET e == hist[s][1]
          mine == SelectSeq(deleted[s], LAMBDA c : c.at = 1)
      IN  /\ e.fail = "none" => mine = <<>>
          /\ e.fail # "none" =>
                /\ mine = <<[at |-> 1, del |-> e.d, res |-> e.r, id |-> <<>>]>>
                /\ deleted[s] = mine
                /\ ur[s].state = "failed"
                /\ ~ur[s].m_execute_on_destruction

\* one construction failed on the resource cell, the other on the deleter cell
C16_Witness ==
  /\ Len(hist["a"]) = 1 /\ Len(hist["b"]) = 1
  /\ hist["a"][1].op = "ctor" /\ hist["a"][1].fail = "resource"
  /\ hist["b"][1].op = "ctor" /\ hist["b"][1].fail = "deleter"
  /\ Values(deleted["a"]) = <<hist["a"][1].r>>
  /\ Values(deleted["b"]) = <<hist["b"][1].r>>

\* C17: during a move construction, at every point where code of the stored
\* types or the deleter runs and when the constructor returns or throws, at
\* most one of the source and the destination is armed; in particular the
\* two objects are never both armed after the move, failed or not.
C17_MoveOneArmed ==
  \A s \in Slots : \A k \in 1..Len(hist[s]) :
    hist[s][k].op = "move" =>
      /\ Len(hist[s][k].points) = 3
      /\ \A i \in 1..Len(hist[s][k].points) :
           ~(hist[s][k].points[i].other /\ hist[s][k].points[i].this)
      /\ (k = Len(hist[s]) /\ hist[Other(s)][Len(hist[Other(s)])].op = "moved_from") =>
           /\ ~(ur[s].m_execute_on_destruction /\ ur[Other(s)].m_execute_on_destruction)
           /\ ur[s].m_execute_on_destruction = hist[s][k].points[3].this
           /\ ur[Other(s)].m_execute_on_destruction = hist[s][k].points[3].other

\* a move from an armed object that fails while the deleter cell is built:
\* the deleter ran on the moved resource, the source is released and the
\* destination does not exist
C17_Witness ==
  /\ Len(hist["b"]) = 1
  /\ hist["b"][1].op = "move" /\ hist["b"][1].fail = "deleter"
  /\ hist["b"][1].other_armed
  /\ hist["a"][Len(hist["a"])].op = "moved_from"
  /\ ur["b"].state = "failed"
  /\ ~ur["a"].m_execute_on_destruction
  /\ Len(deleted["b"]) = 1

\* C18: reset(r) deletes the old resource before it adopts the new one; when
\* storing the new resource fails, the deleter of the object is invoked
\* exactly once with r, after the call for the old resource, the object is
\* left disarmed, and the end of its scope right after does not invoke the
\* deleter again.
C18_ResetNewFallback ==
  \A s \in Slots : \A k \in 1..Len(hist[s]) :
    (hist[s][k].op = "reset_new" /\ hist[s][k].fail = "resource") =>
      /\ At(s, k) = Deletes(hist[s][k].armed, hist[s][k].res) \o <<hist[s][k].r>>
      /\ k = Len(hist[s]) =>
           /\ ~ur[s].m_execute_on_destruction
           /\ \A i \in 1..Len(deleted[s]) :
                deleted[s][i].at = k => deleted[s][i].del = ur[s].m_deleter
      /\ Did(s, k + 1, "dtor") => At(s, k + 1) = <<>>

C18_Witness ==
  /\ Len(hist["a"]) = 3
  /\ Did("a", 1, "ctor")
  /\ hist["a"][2].op = "reset_new" /\ hist["a"][2].fail = "resource"
  /\ hist["a"][2].r # hist["a"][1].r
  /\ Did("a", 3, "dtor")
  /\ Values(deleted["a"]) = <<hist["a"][1].r, hist["a"][2].r>>
  /\ At("a", 3) = <<>>

C20_Witness ==
  /\ Len(hist["a"]) = 2
  /\ Did("a", 1, "ctor")
  /\ Tears("a", 2, "throw") /\ hist["a"][2].op = "dtor"
  /\ terminated
  /\ Values(deleted["a"]) = <<hist["a"][1].r>>

\* ------------------------------------------------------------------------
\* further properties of the policies and of unique_resource
\* ------------------------------------------------------------------------

\* C21 (as the specification states it): for an object built by
\* make_unique_resource_checked, no operation (the construction, failed or
\* not, reset(), reset(r), release(), a move, the end of its scope) ever
\* invokes the deleter with a value equal to the sentinel.
C21_NoSentinelDeletion ==
  \A s \in Slots :
    (Len(hist[s]) >= 1 /\ hist[s][1].op = "checked") =>
      \A i \in 1..Len(deleted[s]) : deleted[s][i].res # hist[s][1].inv

\* the values the probe can read: the small counts of the scenarios and the
\* largest values of int
ProbeReadings == (0..MaxProbe) \cup {IntMax - 1, IntMax}

\* C22: a policy on which release() was called (by the caller, or by a move
\* out of the guard) answers should_execute() with false for every value the
\* probe can read, in every later state, and another release() leaves it as
\* it is.
C22_ReleasedForever ==
  \A g \in GuardIds :
    (guard[g].state = "live" /\ ginfo[g].released) =>
      /\ \A count \in ProbeReadings : ~should_execute(guard[g].policy, count)
      /\ ~should_execute(guard[g].policy, uncaught_exception_count)
      /\ release(guard[g].policy) = guard[g].policy

\* a released fail guard while a failure started after its construction is in
\* flight, and a released success guard while the probe reads its baseline
C22_Witness ==
  /\ guard["g1"].state = "live" /\ ginfo["g1"].released
  /\ guard["g1"].policy.kind = "fail"
  /\ uncaught_exception_count > ginfo["g1"].baseline
  /\ guard["g2"].state = "live" /\ ginfo["g2"].released
  /\ guard["g2"].policy.kind = "success"
  /\ ginfo["g2"].baseline = uncaught_exception_count

\* the k-th operation on s is one of reset(), reset(r) and the end of scope
Resets(s, k) ==
  /\ k \in 1..Len(hist[s])
  /\ hist[s][k].op \in {"reset", "reset_new", "dtor"}

\* C23 (as the specification states it): every deleter invocation made by
\* reset(), reset(r) or the end of scope passes the resource value that the
\* object stores at that moment.
C23_AlwaysStoredValue ==
  \A s \in Slots : \A k \in 1..Len(hist[s]) :
    Resets(s, k) =>
      \A i \in 1..Len(At(s, k)) : At(s, k)[i] = hist[s][k].res

\* C23 (amended): reset(), the end of scope and reset(r) delete the resource
\* the object stores at that moment, never an earlier one: after a reset(r2)
\* that succeeded the value passed at the end of scope is r2.  The one call
\* made with another value is the fallback of a reset(r) whose assignment
\* failed: it passes r, which was never stored.
C23_CurrentResource ==
  \A s \in Slots : \A k \in 1..Len(hist[s]) :
    Resets(s, k) =>
      LET e == hist[s][k]
      IN  /\ At(s, k) = Deletes(e.armed, e.res) \o
                        (IF e.op = "reset_new" /\ e.fail = "resource"
                           THEN <<e.r>> ELSE <<>>)
          /\ (Did(s, k, "reset_new") /\ k = Len(hist[s])) =>
                ur[s].m_resource = e.r
          /\ (Did(s, k, "reset_new") /\ Did(s, k + 1, "dtor")) =>
                At(s, k + 1) = <<e.r>>

\* construction with one value, reset(r2) with another, end of scope
C23_Witness ==
  /\ Len(hist["a"]) = 3
  /\ Did("a", 1, "ctor") /\ Did("a", 2, "reset_new") /\ Did("a", 3, "dtor")
  /\ hist["a"][2].r # hist["a"][1].r
  /\ At("a", 2) = <<hist["a"][1].r>>
  /\ At("a", 3) = <<hist["a"][2].r>>

\* C24: a cell whose type is a reference designates the caller's object
\* itself, so that get() (get_deleter()) returns that object, whatever the
\* caller stores in it later; a cell whose type is a value type holds an
\* object of its own, equal to the constructor's argument and untouched by
\* what the caller does to its object afterwards.  The two cells are
\* independent: all four combinations of R and D.
C24_StorageKinds ==
  cell.state = "live" =>
    /\ cref(cell.m_resource) = (IF cell.R_ref THEN "resource" ELSE "m_resource")
    /\ cref(cell.m_deleter) = (IF cell.D_ref THEN "deleter" ELSE "m_deleter")
    /\ ~cell.R_ref => memory[cref(cell.m_resource)] = cell.r
    /\ ~cell.D_ref => memory[cref(cell.m_deleter)] = cell.d
    /\ cell.get # <<>> =>
         /\ cell.get[1] = (IF cell.R_ref THEN "resource" ELSE "m_resource")
         /\ ~cell.R_ref => cell.get[2] = cell.r
    /\ cell.get_deleter # <<>> =>
         /\ cell.get_deleter[1] = (IF cell.D_ref THEN "deleter" ELSE "m_deleter")
         /\ ~cell.D_ref => cell.get_deleter[2] = cell.d

\* unique_resource<R&, D>: after the caller changed both of its objects,
\* get() returns the caller's resource with its new value and get_deleter()
\* the copy made at construction
C24_Witness ==
  /\ cell.state = "live" /\ cell.R_ref /\ ~cell.D_ref
  /\ memory["resource"] # cell.r
  /\ memory["deleter"] # cell.d
  /\ cell.get = <<"resource", memory["resource"]>>
  /\ cell.get_deleter = <<"m_deleter", cell.d>>

\* s has just been observed: the step appended a get() or a get_deleter()
\* to its history
Observes(s) ==
  /\ Len(hist'[s]) = Len(hist[s]) + 1
  /\ hist'[s][Len(hist'[s])].op \in {"get", "get_deleter"}

\* C25: get() returns the stored resource and get_deleter() the stored
\* deleter, and neither has an effect: the flag, the resource, the deleter of
\* every object and the deleter invocations made so far are the same after
\* the call as before, whatever state the object is in (armed, released,
\* after reset(), moved from).
C25_ObserversFrame ==
  [][\A s \in Slots :
       Observes(s) =>
         LET e == hist'[s][Len(hist'[s])]
         IN  /\ e.op = "get" => e.r = ur[s].m_resource
             /\ e.op = "get_deleter" => e.d = ur[s].m_deleter
             /\ ur' = ur
             /\ deleted' = deleted
             /\ identity' = identity
             /\ UNCHANGED <<uncaught_exception_count, terminated>>]_allvars

\* a moved-from object and the armed object built from it, each observed
C25_Witness ==
  /\ Len(hist["a"]) = 3 /\ Len(hist["b"]) = 2
  /\ Did("a", 1, "ctor") /\ hist["a"][2].op = "moved_from" /\ Did("a", 3, "get")
  /\ Did("b", 1, "move") /\ Did("b", 2, "get_deleter")
  /\ hist["a"][3].r = hist["a"][1].r
  /\ hist["b"][2].d = hist["a"][1].d
  /\ ~ur["a"].m_execute_on_destruction /\ ur["b"].m_execute_on_destruction
  /\ deleted["a"] = <<>> /\ deleted["b"] = <<>>

\* C26: the baseline of a guard is the probe's value at its construction, and
\* the decision at teardown is relative to it: a fail guard runs its action
\* exactly when the probe at teardown is strictly greater than the baseline,
\* so a fail guard built while a failure is already in flight (baseline >= 1)
\* and torn down with the probe back at that baseline does not run it, while
\* a success guard in the same situation does.
C26_RelativeToBaseline ==
  \A g \in GuardIds :
    /\ (guard[g].state = "live" /\ ~ginfo[g].released
          /\ guard[g].policy.kind \in {"fail", "success"}) =>
         guard[g].policy.m_exception_count = ginfo[g].baseline
    /\ (TornDownMade(g) /\ ~ginfo[g].released /\ guard[g].policy.kind = "fail") =>
         /\ called[g] <= 1
         /\ called[g] = 1 <=> ginfo[g].teardown > ginfo[g].baseline
    /\ (TornDownMade(g) /\ ~ginfo[g].released /\ guard[g].policy.kind = "success"
          /\ ginfo[g].teardown = ginfo[g].baseline) =>
         called[g] = 1

\* both guards built while a failure is in flight and torn down with the
\* probe at their baseline
C26_Witness ==
  /\ TornDownMade("g1") /\ ~ginfo["g1"].released
  /\ guard["g1"].policy.kind = "fail"
  /\ ginfo["g1"].baseline >= 1
  /\ ginfo["g1"].teardown = ginfo["g1"].baseline
  /\ called["g1"] = 0
  /\ TornDownMade("g2") /\ ~ginfo["g2"].released
  /\ guard["g2"].policy.kind = "success"
  /\ ginfo["g2"].baseline >= 1
  /\ ginfo["g2"].teardown = ginfo["g2"].baseline
  /\ called["g2"] = 1

\* the operations that assign no new value to an object
Keeps ==
  {"reset", "release", "dtor", "get", "get_deleter", "moved_from"}

\* between the k-th and the j-th operation on s, the j-th included, no new
\* value was assigned to s
NothingAssigned(s, k, j) == \A i \in (k + 1)..j : hist[s][i].op \in Keeps

\* C27: after reset() the object is disarmed and stays so until reset(r)
\* gives it a new value: every reset(), release() and end of scope in
\* between invokes no deleter, so a repeated reset() does nothing.
C27_DisarmedAfterReset ==
  \A s \in Slots : \A k \in 1..Len(hist[s]) :
    hist[s][k].op = "reset" =>
      /\ \A j \in (k + 1)..Len(hist[s]) :
           NothingAssigned(s, k, j) => At(s, j) = <<>>
      /\ NothingAssigned(s, k, Len(hist[s])) => ~ur[s].m_execute_on_destruction

\* construction, reset(), reset() again, end of scope: one deletion, by the
\* first reset()
C27_Witness ==
  /\ Len(hist["a"]) = 4
  /\ Did("a", 1, "ctor") /\ Did("a", 2, "reset") /\ Did("a", 3, "reset")
  /\ Did("a", 4, "dtor")
  /\ Values(deleted["a"]) = <<hist["a"][1].r>>
  /\ deleted["a"][1].at = 2

\* the k-th operation on s is a move construction of s that failed at fail
FailedMove(s, k, fail) ==
  /\ k \in 1..Len(hist[s])
  /\ hist[s][k].op = "move"
  /\ hist[s][k].fail = fail

\* C28 (as the specification states it): every deleter invocation, the
\* fallbacks of a failed construction, move construction and reset(r)
\* included, goes through a deleter object whose construction has completed:
\* the caller's deleter for a construction, the source's for a move
\* construction whose deleter cell failed (never the destination's cell), the
\* object's own otherwise.
C28_DeleterConstructed ==
  \A s \in Slots : \A i \in 1..Len(deleted[s]) :
    LET c == deleted[s][i]
        e == hist[s][c.at]
    IN  /\ c.del \in Deleters
        /\ e.op \in {"ctor", "checked", "move"} => c.del = e.d

\* C29 (as the specification states it): a move construction from an armed
\* source that fails still has the resource deleted exactly once: when the
\* resource cell fails no deleter is invoked and the source stays armed, and
\* deletes once when its scope ends; when the deleter cell fails the
\* source's deleter is invoked exactly once with the resource and the source
\* is left disarmed.  From a disarmed source a failed move invokes nothing.
C29_FailedMoveDeletesOnce ==
  \A s \in Slots :
    LET o == Other(s)
        e == hist[s][1]
        mine == SelectSeq(deleted[s], LAMBDA c : c.at = 1)
    IN  /\ FailedMove(s, 1, "resource") =>
             /\ mine = <<>>
             /\ Len(hist[o]) = MovedFromAt(o) =>
                   ur[o].m_execute_on_destruction = e.other_armed
             /\ Did(o, MovedFromAt(o) + 1, "dtor") =>
                   At(o, MovedFromAt(o) + 1) = Deletes(e.other_armed, e.r)
        /\ FailedMove(s, 1, "deleter") =>
             /\ Len(mine) = (IF e.other_armed THEN 1 ELSE 0)
             /\ \A i \in 1..Len(mine) : mine[i].res = e.r /\ mine[i].del = e.d
             /\ Len(hist[o]) = MovedFromAt(o) => ~ur[o].m_execute_on_destruction
             /\ Did(o, MovedFromAt(o) + 1, "dtor") => At(o, MovedFromAt(o) + 1) = <<>>

\* no operation so far failed, re-entered or threw
FailureFree ==
  \A s \in Slots : \A k \in 1..Len(hist[s]) : hist[s][k].fail = "none"

\* the adoptions made so far: the constructions and the reset(r) calls
Adoptions ==
  UNION {{<<s, k>> : k \in {j \in 1..Len(hist[s]) : Adopts(hist[s][j])}} : s \in Slots}

\* the deleter invocations made for the resource of an adoption
DeletionsOf(id) ==
  Len(SelectSeq(deleted["a"], LAMBDA c : c.id = id))
    + Len(SelectSeq(deleted["b"], LAMBDA c : c.id = id))

\* the adoption armed the object: every construction but a checked one of
\* the sentinel, and every reset(r)
ArmedAdoption(id) ==
  LET e == hist[id[1]][id[2]]
  IN  e.op = "checked" => e.r # e.inv

\* release() was called on an object while it held the adoption's resource
ReleasedAdoption(id) ==
  \E s \in Slots : \E k \in 1..Len(hist[s]) :
    hist[s][k].op = "release" /\ hist[s][k].id = id

\* every object that was built has been destroyed
AllDestroyed ==
  /\ \A s \in Slots : ur[s].state \in {"none", "dead"}
  /\ \E s \in Slots : ur[s].state = "dead"

\* C30: over every failure-free sequence of constructions, move
\* constructions, reset(), reset(r), release() and ends of scope, the deleter
\* is invoked at most once for each adoption of a resource, and exactly once
\* for each adoption that armed the object and was never released, once
\* every object is destroyed.
C30_OncePerAdoption ==
  FailureFree =>
    \A id \in Adoptions :
      /\ DeletionsOf(id) <= 1
      /\ (AllDestroyed /\ ArmedAdoption(id) /\ ~ReleasedAdoption(id)) =>
           DeletionsOf(id) = 1

\* a built, b move-constructed from a, both destroyed: one deletion, made by
\* b, of the resource a adopted
C30_Witness ==
  /\ FailureFree /\ AllDestroyed
  /\ Did("a", 1, "ctor") /\ Did("b", 1, "move")
  /\ ur["a"].state = "dead" /\ ur["b"].state = "dead"
  /\ Adoptions = {<<"a", 1>>}
  /\ deleted["a"] = <<>>
  /\ Len(deleted["b"]) = 1
  /\ DeletionsOf(<<"a", 1>>) = 1

\* the operations that end the ownership of the stored resource by deleting it
Disposes == {"dtor", "reset"}

\* C31: reset(r) on a disarmed object (released, reset, moved from, or built
\* by the checked factory from the sentinel) invokes no deleter, stores r and
\* arms the object; the reset() or end of scope that follows invokes the
\* deleter exactly once, with r, and an end of scope after that reset() does
\* not invoke it again.
C31_ResetNewRearms ==
  \A s \in Slots : \A k \in 1..Len(hist[s]) :
    (Did(s, k, "reset_new") /\ ~hist[s][k].armed) =>
      /\ At(s, k) = <<>>
      /\ k = Len(hist[s]) =>
           /\ ur[s].m_execute_on_destruction
           /\ ur[s].m_resource = hist[s][k].r
      /\ \A op \in Disposes :
           Did(s, k + 1, op) =>
             /\ At(s, k + 1) = <<hist[s][k].r>>
             /\ Did(s, k + 2, "dtor") => At(s, k + 2) = <<>>

\* construction, release(), reset(r) with another value, end of scope: the
\* only deletion is the one of r, at the end of scope
C31_Witness ==
  /\ Len(hist["a"]) = 4
  /\ Did("a", 1, "ctor") /\ hist["a"][1].r = 42
  /\ Did("a", 2, "release")
  /\ Did("a", 3, "reset_new") /\ hist["a"][3].r = invalid_value
  /\ ~hist["a"][3].armed /\ hist["a"][3].res = 42
  /\ Did("a", 4, "dtor")
  /\ Values(deleted["a"]) = <<invalid_value>>
  /\ deleted["a"][1].at = 4

\* a fail guard f and a success guard s, both built by a factory at the same
\* baseline, never released, and torn down at the same probe value
SameBaselinePair(f, s) ==
  /\ TornDownMade(f) /\ TornDownMade(s)
  /\ guard[f].policy.kind = "fail" /\ guard[s].policy.kind = "success"
  /\ ~ginfo[f].released /\ ~ginfo[s].released
  /\ ginfo[f].baseline = ginfo[s].baseline
  /\ ginfo[f].teardown = ginfo[s].teardown

\* C32: of an unreleased fail guard and an unreleased success guard that
\* captured the same baseline, exactly one runs its action at teardown,
\* whatever the probe is then, a value below the baseline included.
C32_ExactlyOneFires ==
  \A f \in GuardIds, s \in GuardIds :
    SameBaselinePair(f, s) => called[f] + called[s] = 1

\* the k-th operation on s is the latest reset(r) on s
LatestResetNew(s, k) ==
  /\ k \in 1..Len(hist[s])
  /\ hist[s][k].op = "reset_new"
  /\ \A j \in (k + 1)..Len(hist[s]) : hist[s][j].op # "reset_new"

\* C33: a reset(r) that completes without a failure invokes the deleter for
\* the old resource only (once if the object was armed, never otherwise):
\* its fallback guard, torn down with the probe at its baseline, does not
\* run its action, also when the probe is above 0 at the call.
C33_NoFallbackOnSuccess ==
  \A s \in Slots : \A k \in 1..Len(hist[s]) :
    Did(s, k, "reset_new") =>
      /\ At(s, k) = Deletes(hist[s][k].armed, hist[s][k].res)
      /\ LatestResetNew(s, k) =>
           /\ guard[fallback_guard[s]].state = "dead"
           /\ ginfo[fallback_guard[s]].teardown = ginfo[fallback_guard[s]].baseline
           /\ called[fallback_guard[s]] = 0

\* reset(r) on an armed object while a failure is in flight: the old
\* resource is deleted, r is stored and not deleted
C33_Witness ==
  /\ Len(hist["a"]) = 2
  /\ Did("a", 1, "ctor") /\ hist["a"][1].r = 42
  /\ Did("a", 2, "reset_new") /\ hist["a"][2].r = invalid_value
  /\ guard["g1"].state = "dead"
  /\ ginfo["g1"].baseline >= 1
  /\ called["g1"] = 0
  /\ Values(deleted["a"]) = <<42>>
  /\ ur["a"].m_resource = invalid_value
  /\ ur["a"].m_execute_on_destruction

\* g was move-constructed from an unreleased fail or success guard and has
\* not been released since
MovedBaselineGuard(g) ==
  /\ guard[g].state # "none"
  /\ ginfo[g].moved_to /\ ~ginfo[g].from_released /\ ~ginfo[g].released
  /\ guard[g].policy.kind \in {"fail", "success"}

\* C34: a fail or success guard built by a move keeps the baseline its
\* source captured at construction, whatever the probe is at the move: while
\* it lives its policy holds that baseline, and its teardown runs the action
\* exactly when the probe is above that baseline (fail) or equal to it
\* (success), so a failure that started between the construction of the
\* source and the move counts as a new failure.
C34_MoveKeepsBaseline ==
  \A g \in GuardIds :
    MovedBaselineGuard(g) =>
      /\ ginfo[g].baseline = ginfo[OtherGuard(g)].baseline
      /\ guard[g].state = "live" =>
           /\ guard[g].policy.m_exception_count = ginfo[g].baseline
           /\ \A count \in 0..MaxProbe :
                should_execute(guard[g].policy, count) <=>
                  IF guard[g].policy.kind = "fail"
                    THEN count > ginfo[g].baseline
                    ELSE count = ginfo[g].baseline
      /\ (guard[g].state = "dead" /\ ~ginfo[g].reentered) =>
           called[g] =
             IF guard[g].policy.kind = "fail"
               THEN (IF ginfo[g].teardown > ginfo[g].baseline THEN 1 ELSE 0)
               ELSE (IF ginfo[g].teardown = ginfo[g].baseline THEN 1 ELSE 0)

\* a fail guard built with no failure in flight, moved while a failure
\* unwinds and torn down during that failure: the destination runs the action
C34_Witness ==
  /\ MovedBaselineGuard("g2")
  /\ guard["g2"].policy.kind = "fail"
  /\ ginfo["g2"].baseline = 0
  /\ ginfo["g2"].moved_at = 1
  /\ guard["g2"].state = "dead" /\ ~ginfo["g2"].reentered
  /\ ginfo["g2"].teardown = 1
  /\ called["g2"] = 1 /\ called["g1"] = 0

\* C35 (as the specification states it): a = std::move(a) changes nothing:
\* the flag, the stored resource and the stored deleter are what they were
\* and the deleter is not invoked.
C35_SelfAssignFrame ==
  \A s \in Slots :
    ur[s].state = "live" =>
      LET a == unique_resource_assign(ur[s], ur[s], TRUE)
      IN  /\ a # IllFormed
          /\ a.u = ur[s]
          /\ a.calls = <<>>

====
